---- MODULE Spec2Model ----
(***************************************************************************)
(* Model of the typed value codec of internal/value/value.go and of the    *)
(* load-aware balancer exercised by the balancer tests.                    *)
(*                                                                         *)
(* Strings are sequences of character codes so that Go's byte-wise string  *)
(* order (used by sort.Slice in StructValue and DictValue) can be computed.*)
(* A [16]byte buffer is the pair <<hi, lo>> of its two big-endian 64-bit   *)
(* halves, which is how BigEndianUint128 / binary.BigEndian.Uint64 build   *)
(* and split it.                                                           *)
(***************************************************************************)
EXTENDS Integers, Sequences, FiniteSets, TLC

VARIABLES
    val,      \* codec: the Value under test
    wire,     \* codec: the TypedValue produced by ToYDB, or None
    res,      \* codec: the result of FromYDB on wire, or None
    cpc,      \* codec: "built" -> "encoded" -> "decoded"
    fieldsA,  \* struct: argument list of the first StructValue call
    fieldsB,  \* struct: the same fields in another order
    svA,      \* struct: StructValue(fieldsA...), or None
    svB,      \* struct: StructValue(fieldsB...), or None
    itemsA,   \* struct: svA.toYDB(a).Items
    itemsB,   \* struct: svB.toYDB(a).Items
    spc,      \* struct: "args" -> "built" -> "encoded"
    conns,    \* balancer: element -> [state, loadFactor], for inserted elements
    removed,  \* balancer: elements whose handle was passed to Remove
    belt,     \* balancer: the distribution Next() draws from, one slot per unit of weight
    op,       \* balancer: the operation performed last
    parg,     \* balancer: the element the last Pessimize call was given
    perr,     \* balancer: what the last Pessimize call returned
    pcaused,  \* balancer: whether the last Pessimize call banned the last Online element
    got,      \* balancer: what the last Next() returned (an element or NoConn)
    arg,      \* function under study: its argument(s)
    out,      \* function under study: what it returned, or None
    fpc       \* function under study: "args" -> ... -> "done"

vars == <<val, wire, res, cpc, fieldsA, fieldsB, svA, svB, itemsA, itemsB, spc,
          conns, removed, belt, op, parg, perr, pcaused, got, arg, out, fpc>>

codecVars == <<val, wire, res, cpc>>
structVars == <<fieldsA, fieldsB, svA, svB, itemsA, itemsB, spc>>
balancerVars == <<conns, removed, belt, op, parg, perr, pcaused, got>>
fnVars == <<arg, out, fpc>>

None == [k |-> "none"]

-----------------------------------------------------------------------------
(* Strings                                                                 *)

\* the strings "a", "b", "c", "ab", "y" and "0"
StrA == <<97>>
StrB == <<98>>
StrC == <<99>>
StrAB == <<97, 98>>
StrY == <<121>>
Str0 == <<48>>

RECURSIVE StrLess(_, _)
\* Go's s < t on strings: byte-wise lexicographic order
StrLess(s, t) ==
    IF t = <<>> THEN FALSE
    ELSE IF s = <<>> THEN TRUE
    ELSE IF Head(s) # Head(t) THEN Head(s) < Head(t)
    ELSE StrLess(Tail(s), Tail(t))

RECURSIVE FormatUint(_)
\* strconv.FormatUint(n, 10)
FormatUint(n) ==
    IF n < 10 THEN <<48 + n>>
    ELSE Append(FormatUint(n \div 10), 48 + (n % 10))

\* strconv.FormatInt(n, 10)
FormatInt(n) == IF n < 0 THEN <<45>> \o FormatUint(-n) ELSE FormatUint(n)

-----------------------------------------------------------------------------
(* Types (the type registry: constructors, wire form and its inverse)      *)

NumKinds == {"Int8", "Int16", "Int32", "Int64", "Uint8", "Uint16", "Uint32",
             "Uint64", "Date", "Datetime", "Timestamp", "Interval", "Float",
             "Double"}
StrKinds == {"Text", "Bytes", "YSON", "JSON", "JSONDocument", "DyNumber",
             "TzDate", "TzDatetime", "TzTimestamp"}
PrimitiveKinds == {"Bool", "UUID"} \cup NumKinds \cup StrKinds

Primitive(id) == [k |-> "primitive", id |-> id]
Optional(t) == [k |-> "optional", innerType |-> t]
List(t) == [k |-> "list", itemType |-> t]
EmptyList == [k |-> "emptyList"]
Tuple(items) == [k |-> "tuple", items |-> items]
StructField(name, t) == [Name |-> name, T |-> t]
Struct(fields) == [k |-> "struct", fields |-> fields]
Dict(key, value) == [k |-> "dict", keyType |-> key, valueType |-> value]
DecimalType(precision, scale) ==
    [k |-> "decimal", Precision |-> precision, Scale |-> scale]
VoidType == [k |-> "void"]
NullType == [k |-> "null"]

\* Variant(t): the variant kind follows the inner type (tuple or struct)
Variant(t) ==
    [k |-> "variant", innerType |-> t,
     variantType |-> IF t.k = "struct" THEN "struct" ELSE "tuple"]

RECURSIVE TypeToYDB(_)
\* Type.toYDB: the tree-shaped wire description of a type
TypeToYDB(t) ==
    CASE t.k = "primitive" -> [type_id |-> t.id]
      [] t.k = "optional" -> [optional_type |-> [item |-> TypeToYDB(t.innerType)]]
      [] t.k = "list" -> [list_type |-> [item |-> TypeToYDB(t.itemType)]]
      [] t.k = "emptyList" -> [empty_list_type |-> TRUE]
      [] t.k = "tuple" ->
            [tuple_type |->
                [elements |-> [i \in DOMAIN t.items |-> TypeToYDB(t.items[i])]]]
      [] t.k = "struct" ->
            [struct_type |->
                [members |-> [i \in DOMAIN t.fields |->
                    [name |-> t.fields[i].Name,
                     type |-> TypeToYDB(t.fields[i].T)]]]]
      [] t.k = "dict" ->
            [dict_type |-> [key |-> TypeToYDB(t.keyType),
                            payload |-> TypeToYDB(t.valueType)]]
      [] t.k = "decimal" ->
            [decimal_type |-> [precision |-> t.Precision, scale |-> t.Scale]]
      [] t.k = "variant" ->
            IF t.variantType = "struct"
            THEN [variant_type |->
                    [struct_items |-> TypeToYDB(t.innerType).struct_type]]
            ELSE [variant_type |->
                    [tuple_items |-> TypeToYDB(t.innerType).tuple_type]]
      [] t.k = "void" -> [void_type |-> TRUE]
      [] t.k = "null" -> [null_type |-> TRUE]

RECURSIVE TypeFromYDB(_)
\* TypeFromYDB: the in-memory type of a wire type description
TypeFromYDB(x) ==
    CASE "type_id" \in DOMAIN x -> Primitive(x.type_id)
      [] "optional_type" \in DOMAIN x -> Optional(TypeFromYDB(x.optional_type.item))
      [] "list_type" \in DOMAIN x -> List(TypeFromYDB(x.list_type.item))
      [] "empty_list_type" \in DOMAIN x -> EmptyList
      [] "tuple_type" \in DOMAIN x ->
            Tuple([i \in DOMAIN x.tuple_type.elements |->
                      TypeFromYDB(x.tuple_type.elements[i])])
      [] "struct_type" \in DOMAIN x ->
            Struct([i \in DOMAIN x.struct_type.members |->
                      StructField(x.struct_type.members[i].name,
                                  TypeFromYDB(x.struct_type.members[i].type))])
      [] "dict_type" \in DOMAIN x ->
            Dict(TypeFromYDB(x.dict_type.key), TypeFromYDB(x.dict_type.payload))
      [] "decimal_type" \in DOMAIN x ->
            DecimalType(x.decimal_type.precision, x.decimal_type.scale)
      [] "variant_type" \in DOMAIN x ->
            IF "struct_items" \in DOMAIN x.variant_type
            THEN Variant(TypeFromYDB([struct_type |-> x.variant_type.struct_items]))
            ELSE Variant(TypeFromYDB([tuple_type |-> x.variant_type.tuple_items]))
      [] "void_type" \in DOMAIN x -> VoidType
      [] "null_type" \in DOMAIN x -> NullType

-----------------------------------------------------------------------------
(* Values: constructors and Type()                                         *)

\* the nil interface held by an optionalValue that is NULL
Nil == [k |-> "nil"]

\* Go integer conversions int8(x), int16(x), uint8(x), uint16(x)
ToInt8(n) == ((n + 128) % 256) - 128
ToInt16(n) == ((n + 32768) % 65536) - 32768
ToUint8(n) == n % 256
ToUint16(n) == n % 65536

\* BigEndianUint128(hi, lo): the 16-byte buffer as its two 64-bit halves
BigEndianUint128(hi, lo) == <<hi, lo>>

BoolValue(b) == [k |-> "Bool", b |-> b]
\* Int8Value .. DoubleValue, DateValue, DatetimeValue, TimestampValue,
\* IntervalValue: a numeric scalar of the given kind
NumValue(kind, n) == [k |-> kind, n |-> n]
\* TextValue, BytesValue, YSONValue, JSONValue, JSONDocumentValue,
\* DyNumberValue, TzDateValue, TzDatetimeValue, TzTimestampValue
StrValue(kind, s) == [k |-> kind, s |-> s]
UUIDValue(v) == [k |-> "UUID", value |-> v]
DecimalValue(v, precision, scale) ==
    [k |-> "decimal", value |-> v, innerType |-> DecimalType(precision, scale)]
VoidValue == [k |-> "void"]

RECURSIVE TypeOf(_)
\* Value.Type()
TypeOf(v) ==
    CASE v.k \in PrimitiveKinds -> Primitive(v.k)
      [] v.k = "decimal" -> v.innerType
      [] v.k = "optional" -> v.innerType
      [] v.k = "variant" -> v.innerType
      [] v.k = "void" -> VoidType
      [] OTHER -> v.t

NullValue(t) == [k |-> "optional", innerType |-> Optional(t), value |-> Nil]
OptionalValue(v) ==
    [k |-> "optional", innerType |-> Optional(TypeOf(v)), value |-> v]

\* ListValue: the item-type check compares every item's type with itself,
\* so it never rejects anything
ListValue(items) ==
    [k |-> "list",
     t |-> IF Len(items) > 0 THEN List(TypeOf(items[1])) ELSE EmptyList,
     items |-> items]

TupleValue(values) ==
    [k |-> "tuple",
     t |-> Tuple([i \in DOMAIN values |-> TypeOf(values[i])]),
     items |-> values]

RECURSIVE InsertByName(_, _)
\* one insertion step of the sort by fields[i].Name < fields[j].Name
InsertByName(sorted, f) ==
    IF sorted = <<>> THEN <<f>>
    ELSE IF StrLess(f.Name, Head(sorted).Name) THEN <<f>> \o sorted
    ELSE <<Head(sorted)>> \o InsertByName(Tail(sorted), f)

\* a StructValue that keeps the argument order
SortByNameUnsorted(fields) == fields

\* a StructValue that stores the arguments last to first
SortByNameReversed(fields) ==
    [i \in DOMAIN fields |-> fields[Len(fields) + 1 - i]]

RECURSIVE SortByName(_)
\* sort.Slice(fields, func(i, j) bool { return fields[i].Name < fields[j].Name })
SortByName(fields) ==
    IF fields = <<>> THEN <<>>
    ELSE InsertByName(SortByName(SubSeq(fields, 1, Len(fields) - 1)),
                      fields[Len(fields)])

StructValueField(name, v) == [Name |-> name, V |-> v]

StructValue(fields) ==
    LET sorted == SortByName(fields)
    IN [k |-> "struct",
        t |-> Struct([i \in DOMAIN sorted |->
                         StructField(sorted[i].Name, TypeOf(sorted[i].V))]),
        fields |-> sorted]

\* the string "NULL"
StrNULL == <<78, 85, 76, 76>>

RECURSIVE toString(_)
\* Value.toString() of the kinds used as dict keys: the integer and string
\* scalars, Bool, and optionals of them
toString(v) ==
    CASE v.k \in StrKinds -> v.s
      [] v.k \in NumKinds -> FormatInt(v.n)
      [] v.k = "Bool" -> IF v.b THEN <<116, 114, 117, 101>>
                                ELSE <<102, 97, 108, 115, 101>>
      [] v.k = "optional" -> IF v.value = Nil THEN StrNULL ELSE toString(v.value)

RECURSIVE InsertByKey(_, _)
\* one insertion step of the sort by values[i].K.toString() < values[j].K.toString()
InsertByKey(sorted, p) ==
    IF sorted = <<>> THEN <<p>>
    ELSE IF StrLess(toString(p.K), toString(Head(sorted).K)) THEN <<p>> \o sorted
    ELSE <<Head(sorted)>> \o InsertByKey(Tail(sorted), p)

RECURSIVE SortByKey(_)
\* sort.Slice on a short slice is an insertion sort: every element moves left
\* past the elements it is less than, so pairs whose keys have the same
\* string keep the order of the arguments
SortByKey(values) ==
    IF values = <<>> THEN <<>>
    ELSE InsertByKey(SortByKey(SubSeq(values, 1, Len(values) - 1)),
                     values[Len(values)])

DictValueField(key, v) == [K |-> key, V |-> v]

\* DictValue: defined for at least one pair (values[0] is read unguarded)
DictValue(values) ==
    LET sorted == SortByKey(values)
    IN [k |-> "dict",
        t |-> Dict(TypeOf(sorted[1].K), TypeOf(sorted[1].V)),
        values |-> sorted]

VariantValue(v, idx, t) ==
    [k |-> "variant", innerType |-> Variant(t), value |-> v, idx |-> idx]

\* VariantValueStruct / VariantValueTuple: v is a struct / tuple value
VariantValueStruct(v, idx) ==
    [k |-> "variant",
     innerType |-> [k |-> "variant", innerType |-> TypeOf(v), variantType |-> "struct"],
     value |-> v, idx |-> idx]

VariantValueTuple(v, idx) ==
    [k |-> "variant",
     innerType |-> [k |-> "variant", innerType |-> TypeOf(v), variantType |-> "tuple"],
     value |-> v, idx |-> idx]

-----------------------------------------------------------------------------
(* Encoding: Value.toYDB and ToYDB                                         *)

NoField == [f |-> "none"]
NullFlag == [f |-> "null_flag_value"]
Nested(w) == [f |-> "nested_value", v |-> w]

\* a.Value(): a zeroed wire value node
ZeroNode ==
    [value |-> NoField, items |-> <<>>, pairs |-> <<>>,
     high_128 |-> 0, variant_index |-> 0]

\* the leaf field each numeric scalar kind writes
NumLeaf(kind) ==
    CASE kind \in {"Int8", "Int16", "Int32"} -> "int32_value"
      [] kind \in {"Int64", "Interval"} -> "int64_value"
      [] kind \in {"Uint8", "Uint16", "Uint32", "Date", "Datetime"} -> "uint32_value"
      [] kind \in {"Uint64", "Timestamp"} -> "uint64_value"
      [] kind = "Float" -> "float_value"
      [] kind = "Double" -> "double_value"

\* the leaf field each string scalar kind writes
StrLeaf(kind) == IF kind \in {"Bytes", "YSON"} THEN "bytes_value" ELSE "text_value"

\* optionalValue.toYDB, payload present and not an optional: only the oneof
\* field of the payload's node is copied into the fresh node
OptionalPayloadNode(w) == [ZeroNode EXCEPT !.value = w.value]

RECURSIVE toYDB(_)
\* Value.toYDB(a)
toYDB(v) ==
    CASE v.k = "Bool" -> [ZeroNode EXCEPT !.value = [f |-> "bool_value", b |-> v.b]]
      [] v.k \in NumKinds -> [ZeroNode EXCEPT !.value = [f |-> NumLeaf(v.k), n |-> v.n]]
      [] v.k \in StrKinds -> [ZeroNode EXCEPT !.value = [f |-> StrLeaf(v.k), s |-> v.s]]
      [] v.k \in {"UUID", "decimal"} ->
            [ZeroNode EXCEPT !.value = [f |-> "low_128", n |-> v.value[2]],
                             !.high_128 = v.value[1]]
      [] v.k = "void" -> [ZeroNode EXCEPT !.value = NullFlag]
      [] v.k = "optional" ->
            IF v.value # Nil /\ v.value.k = "optional"
            THEN [ZeroNode EXCEPT !.value = Nested(toYDB(v.value))]
            ELSE IF v.value # Nil
                 THEN OptionalPayloadNode(toYDB(v.value))
                 ELSE [ZeroNode EXCEPT !.value = NullFlag]
      [] v.k \in {"list", "tuple"} ->
            [ZeroNode EXCEPT !.items = [i \in DOMAIN v.items |-> toYDB(v.items[i])]]
      [] v.k = "struct" ->
            [ZeroNode EXCEPT !.items = [i \in DOMAIN v.fields |-> toYDB(v.fields[i].V)]]
      [] v.k = "dict" ->
            [ZeroNode EXCEPT !.pairs =
                [i \in DOMAIN v.values |->
                    [key |-> toYDB(v.values[i].K), payload |-> toYDB(v.values[i].V)]]]
      [] v.k = "variant" ->
            [ZeroNode EXCEPT !.value = Nested(toYDB(v.value)),
                             !.variant_index = v.idx]

\* ToYDB(v, a): the typed value
ToYDB(v) == [type |-> TypeToYDB(TypeOf(v)), value |-> toYDB(v)]

-----------------------------------------------------------------------------
(* Decoding: nullValueFromYDB, primitiveValueFromYDB, fromYDB, FromYDB     *)

\* results: a value, an error returned to the caller (the errors fromYDB
\* builds for the types of the model carry a stack trace), or a panic
Ok(v) == [ok |-> TRUE, v |-> v]
Err == [ok |-> FALSE, panic |-> FALSE, stack |-> TRUE]
Panic == [ok |-> FALSE, panic |-> TRUE]

RECURSIVE EndsInNullFlag(_)
\* the loop of nullValueFromYDB: follow NestedValue down to a NullFlag
EndsInNullFlag(x) ==
    CASE x.value.f = "nested_value" -> EndsInNullFlag(x.value.v)
      [] x.value.f = "null_flag_value" -> TRUE
      [] OTHER -> FALSE

\* nullValueFromYDB(x, t): the (value, ok) pair; ok is FALSE as None
nullValueFromYDB(x, t) ==
    IF ~EndsInNullFlag(x) THEN None
    ELSE CASE t.k = "optional" -> NullValue(t.innerType)
           [] t.k = "void" -> VoidValue
           [] OTHER -> None

\* the protobuf getters: the field's value when that oneof field is set,
\* the zero value otherwise
GetNum(x, field) == IF x.value.f = field THEN x.value.n ELSE 0
GetStr(x, field) == IF x.value.f = field THEN x.value.s ELSE <<>>
GetBool(x) == IF x.value.f = "bool_value" THEN x.value.b ELSE FALSE

primitiveValueFromYDB(id, x) ==
    CASE id = "Bool" -> Ok(BoolValue(GetBool(x)))
      [] id = "Int8" -> Ok(NumValue(id, ToInt8(GetNum(x, "int32_value"))))
      [] id = "Int16" -> Ok(NumValue(id, ToInt16(GetNum(x, "int32_value"))))
      [] id = "Uint8" -> Ok(NumValue(id, ToUint8(GetNum(x, "uint32_value"))))
      [] id = "Uint16" -> Ok(NumValue(id, ToUint16(GetNum(x, "uint32_value"))))
      [] id \in NumKinds \ {"Int8", "Int16", "Uint8", "Uint16"} ->
            Ok(NumValue(id, GetNum(x, NumLeaf(id))))
      [] id = "YSON" ->
            IF x.value.f \in {"text_value", "bytes_value"}
            THEN Ok(StrValue(id, x.value.s))
            ELSE Err
      [] id \in StrKinds \ {"YSON"} -> Ok(StrValue(id, GetStr(x, StrLeaf(id))))
      [] id = "UUID" ->
            Ok(UUIDValue(BigEndianUint128(x.high_128, GetNum(x, "low_128"))))
      [] OTHER -> Err

AnyFailed(rs) == \E i \in DOMAIN rs : ~rs[i].ok

\* FromYDB panics on every error of fromYDB
OrPanic(r) == IF r.ok THEN r ELSE Panic

RECURSIVE fromYDB(_, _)
\* fromYDB(t, v); FromYDB(t, v) is OrPanic(fromYDB(t, v))
fromYDB(t, v) ==
    LET tt == TypeFromYDB(t)
        nv == nullValueFromYDB(v, tt)
    IN
    IF nv # None THEN Ok(nv)
    ELSE
    CASE tt.k = "primitive" -> primitiveValueFromYDB(tt.id, v)
      [] tt.k = "void" -> Ok(VoidValue)
      [] tt.k = "null" -> Ok(NullValue(tt))
      [] tt.k = "decimal" ->
            Ok(DecimalValue(BigEndianUint128(v.high_128, GetNum(v, "low_128")),
                            tt.Precision, tt.Scale))
      [] tt.k = "optional" ->
            LET item == t.optional_type.item
                r == IF v.value.f = "nested_value"
                     THEN OrPanic(fromYDB(item, v.value.v))
                     ELSE OrPanic(fromYDB(item, v))
            IN IF r.ok THEN Ok(OptionalValue(r.v)) ELSE Panic
      [] tt.k = "list" ->
            LET rs == [i \in DOMAIN v.items |->
                          OrPanic(fromYDB(TypeToYDB(tt.itemType), v.items[i]))]
            IN IF AnyFailed(rs) THEN Panic
               ELSE Ok(ListValue([i \in DOMAIN rs |-> rs[i].v]))
      [] tt.k = "tuple" ->
            \* ttt.items[i] is out of range when the wire has more items
            IF Len(v.items) > Len(tt.items) THEN Panic
            ELSE LET rs == [i \in DOMAIN v.items |->
                               OrPanic(fromYDB(TypeToYDB(tt.items[i]), v.items[i]))]
                 IN IF AnyFailed(rs) THEN Panic
                    ELSE Ok(TupleValue([i \in DOMAIN rs |-> rs[i].v]))
      [] tt.k = "struct" ->
            IF Len(v.items) > Len(tt.fields) THEN Panic
            ELSE LET rs == [i \in DOMAIN v.items |->
                               OrPanic(fromYDB(TypeToYDB(tt.fields[i].T), v.items[i]))]
                 IN IF AnyFailed(rs) THEN Panic
                    ELSE Ok(StructValue([i \in DOMAIN rs |->
                            StructValueField(tt.fields[i].Name, rs[i].v)]))
      [] tt.k = "dict" ->
            LET ks == [i \in DOMAIN v.pairs |->
                          OrPanic(fromYDB(TypeToYDB(tt.keyType), v.pairs[i].key))]
                ps == [i \in DOMAIN v.pairs |->
                          OrPanic(fromYDB(TypeToYDB(tt.valueType), v.pairs[i].payload))]
            IN IF AnyFailed(ks) \/ AnyFailed(ps) THEN Panic
               \* DictValue reads values[0]
               ELSE IF Len(v.pairs) = 0 THEN Panic
               ELSE Ok(DictValue([i \in DOMAIN ks |->
                                     DictValueField(ks[i].v, ps[i].v)]))
      [] tt.k = "variant" ->
            \* v.Value.(*Ydb.Value_NestedValue) is an unchecked assertion
            IF v.value.f # "nested_value" THEN Panic
            ELSE LET r == OrPanic(fromYDB(TypeToYDB(tt.innerType), v.value.v))
                 IN IF ~r.ok THEN Panic
                    ELSE IF tt.variantType = "tuple"
                         THEN Ok(VariantValueTuple(r.v, v.variant_index))
                         ELSE Ok(VariantValueStruct(r.v, v.variant_index))
      [] OTHER -> Err

FromYDB(t, v) == OrPanic(fromYDB(t, v))

-----------------------------------------------------------------------------
(* The values the codec is exercised on                                    *)

Int32Value(n) == NumValue("Int32", n)
TextValue(str) == StrValue("Text", str)

\* a zero-filled buffer, and buffers with a non-zero low / high half
Buf0 == BigEndianUint128(0, 0)
BufLo == BigEndianUint128(0, 5)
BufHi == BigEndianUint128(1, 2)

NumSamples ==
    {NumValue("Int8", -1), NumValue("Int16", 300), Int32Value(-1), Int32Value(1),
     NumValue("Int64", 7), NumValue("Uint8", 200), NumValue("Uint16", 400),
     NumValue("Uint32", 3), NumValue("Uint64", 9), NumValue("Date", 1),
     NumValue("Datetime", 2), NumValue("Timestamp", 3), NumValue("Interval", -4),
     NumValue("Float", 1), NumValue("Double", 2)}

StrSamples ==
    {TextValue(StrY), TextValue(<<>>), StrValue("Bytes", StrB),
     StrValue("YSON", StrC), StrValue("JSON", StrA),
     StrValue("JSONDocument", StrA), StrValue("DyNumber", Str0),
     StrValue("TzDate", StrA), StrValue("TzDatetime", StrB),
     StrValue("TzTimestamp", StrC)}

Scalars ==
    NumSamples \cup StrSamples \cup
    {BoolValue(TRUE), BoolValue(FALSE), UUIDValue(BufLo), UUIDValue(BufHi),
     DecimalValue(Buf0, 22, 9), DecimalValue(BufLo, 22, 9),
     DecimalValue(BufHi, 22, 9), VoidValue}

\* the scalars used as elements of containers
Elems == {Int32Value(1), Int32Value(-1), TextValue(StrY), UUIDValue(BufHi)}
DictKeys == {Int32Value(1), Int32Value(-1), Int32Value(10), Int32Value(9)}

SameType(a, b) == TypeOf(a) = TypeOf(b)

Lists ==
    {ListValue(<<>>)} \cup {ListValue(<<a>>) : a \in Elems}
    \cup {ListValue(<<p[1], p[2]>>) : p \in {q \in Elems \X Elems : SameType(q[1], q[2])}}

Tuples ==
    {TupleValue(<<>>)} \cup {TupleValue(<<a>>) : a \in Elems}
    \cup {TupleValue(<<p[1], p[2]>>) : p \in Elems \X Elems}

Structs ==
    {StructValue(<<>>)}
    \cup {StructValue(<<StructValueField(StrA, a)>>) : a \in Elems}
    \cup {StructValue(<<StructValueField(StrB, p[1]), StructValueField(StrA, p[2])>>) :
             p \in Elems \X Elems}

Dicts ==
    {DictValue(<<DictValueField(key, a)>>) : key \in DictKeys, a \in Elems}
    \cup {DictValue(<<DictValueField(p[1], a), DictValueField(p[2], a)>>) :
             p \in {q \in DictKeys \X DictKeys : q[1] # q[2]}, a \in {Int32Value(1)}}

\* variants over Tuple<T, Text> and Struct<a:T, b:Text>, holding the element
\* value (VariantValue) or the whole inner value (VariantValueTuple/Struct)
Variants ==
    {VariantValue(a, 0, Tuple(<<TypeOf(a), Primitive("Text")>>)) : a \in Elems}
    \cup {VariantValue(TextValue(StrY), 1, Tuple(<<TypeOf(a), Primitive("Text")>>)) :
             a \in Elems}
    \cup {VariantValue(a, 0, Struct(<<StructField(StrA, TypeOf(a)),
                                     StructField(StrB, Primitive("Text"))>>)) :
             a \in Elems}
    \cup {VariantValueTuple(TupleValue(<<a, TextValue(StrY)>>), i) :
             a \in Elems, i \in {0, 1}}
    \cup {VariantValueStruct(
             StructValue(<<StructValueField(StrA, a),
                           StructValueField(StrB, TextValue(StrY))>>), i) :
             a \in Elems, i \in {0, 1}}

Level1 == Scalars \cup Lists \cup Tuples \cup Structs \cup Dicts \cup Variants

NullTypes ==
    {Primitive("Int32"), Primitive("Text"), Optional(Primitive("Int32")),
     Optional(Optional(Primitive("Int32"))), List(Primitive("Int32")),
     DecimalType(22, 9)}

Optionals1 == {OptionalValue(v) : v \in Level1} \cup {NullValue(t) : t \in NullTypes}
Optionals2 == {OptionalValue(v) : v \in Optionals1}
Optionals3 ==
    {OptionalValue(v) : v \in {w \in Optionals2 :
        TypeOf(w) = Optional(Optional(Primitive("Int32")))}}

\* containers of optionals
Level2 ==
    {ListValue(<<o>>) : o \in {OptionalValue(Int32Value(1)), NullValue(Primitive("Int32"))}}
    \cup {TupleValue(<<o, Int32Value(1)>>) :
             o \in {OptionalValue(Int32Value(1)), NullValue(Primitive("Int32"))}}
    \cup {StructValue(<<StructValueField(StrA, o)>>) :
             o \in {OptionalValue(TextValue(StrY)), NullValue(Primitive("Text")),
                    OptionalValue(UUIDValue(BufHi))}}

Values == Level1 \cup Optionals1 \cup Optionals2 \cup Optionals3 \cup Level2

-----------------------------------------------------------------------------
(* The codec: a value is built, encoded by ToYDB, decoded by FromYDB       *)

InitCodec ==
    /\ val \in Values
    /\ wire = None
    /\ res = None
    /\ cpc = "built"
    /\ fieldsA = <<>> /\ fieldsB = <<>> /\ svA = None /\ svB = None
    /\ itemsA = <<>> /\ itemsB = <<>> /\ spc = "idle"
    /\ conns = <<>> /\ removed = {} /\ belt = <<>> /\ op = "idle"
    /\ perr = "nil" /\ pcaused = FALSE /\ got = 0 /\ parg = 0
    /\ arg = None /\ out = None /\ fpc = "idle"

\* tv := ToYDB(v, a)
Encode ==
    /\ cpc = "built"
    /\ wire' = ToYDB(val)
    /\ cpc' = "encoded"
    /\ UNCHANGED <<val, res, structVars, balancerVars, fnVars>>

\* FromYDB(tv.Type, tv.Value)
Decode ==
    /\ cpc = "encoded"
    /\ res' = FromYDB(wire.type, wire.value)
    /\ cpc' = "decoded"
    /\ UNCHANGED <<val, wire, structVars, balancerVars, fnVars>>

-----------------------------------------------------------------------------
(* StructValue on two orderings of the same fields                         *)

FieldNames == {StrA, StrB, StrC, StrAB}
FieldValues == {Int32Value(1), Int32Value(2), TextValue(StrY)}
MaxFields == 3

\* argument lists of at most MaxFields fields with pairwise distinct names
FieldLists ==
    UNION {{fs \in [1..n -> {StructValueField(nm, v) : nm \in FieldNames, v \in FieldValues}] :
               \A i, j \in 1..n : i # j => fs[i].Name # fs[j].Name} : n \in 0..MaxFields}

\* the reorderings of an argument list
Reorderings(fs) ==
    {[i \in DOMAIN fs |-> fs[p[i]]] :
        p \in {q \in [DOMAIN fs -> DOMAIN fs] : \A i, j \in DOMAIN fs : i # j => q[i] # q[j]}}

InitStruct ==
    /\ fieldsA \in FieldLists
    /\ fieldsB \in Reorderings(fieldsA)
    /\ svA = None
    /\ svB = None
    /\ itemsA = <<>>
    /\ itemsB = <<>>
    /\ spc = "args"
    /\ val = None /\ wire = None /\ res = None /\ cpc = "idle"
    /\ conns = <<>> /\ removed = {} /\ belt = <<>> /\ op = "idle"
    /\ perr = "nil" /\ pcaused = FALSE /\ got = 0 /\ parg = 0
    /\ arg = None /\ out = None /\ fpc = "idle"

\* the two constructor calls
BuildStructs ==
    /\ spc = "args"
    /\ svA' = StructValue(fieldsA)
    /\ svB' = StructValue(fieldsB)
    /\ spc' = "built"
    /\ UNCHANGED <<fieldsA, fieldsB, itemsA, itemsB, codecVars, balancerVars, fnVars>>

\* both values are encoded
EncodeStructs ==
    /\ spc = "built"
    /\ itemsA' = toYDB(svA).items
    /\ itemsB' = toYDB(svB).items
    /\ spc' = "encoded"
    /\ UNCHANGED <<fieldsA, fieldsB, svA, svB, codecVars, balancerVars, fnVars>>

-----------------------------------------------------------------------------
(* Pure functions studied one at a time: the argument is drawn by the      *)
(* initial state, the action applies the function                          *)

\* the codec, the struct pair and the balancer are not in use
RestIdle ==
    /\ val = None /\ wire = None /\ res = None /\ cpc = "idle"
    /\ fieldsA = <<>> /\ fieldsB = <<>> /\ svA = None /\ svB = None
    /\ itemsA = <<>> /\ itemsB = <<>> /\ spc = "idle"
    /\ conns = <<>> /\ removed = {} /\ belt = <<>> /\ op = "idle"
    /\ perr = "nil" /\ pcaused = FALSE /\ got = 0 /\ parg = 0

-----------------------------------------------------------------------------
(* DictValue on two orderings of the same pairs                            *)

\* keys of one type each: Int32, Optional<Text>, Optional<Optional<Int32>>
DictKeyFamilies ==
    {{Int32Value(1), Int32Value(10), Int32Value(9), Int32Value(-1)},
     {NullValue(Primitive("Text")), OptionalValue(TextValue(StrNULL)),
      OptionalValue(TextValue(StrA))},
     {NullValue(Optional(Primitive("Int32"))),
      OptionalValue(NullValue(Primitive("Int32"))),
      OptionalValue(OptionalValue(Int32Value(1)))}}
DictPayloads == {Int32Value(1), Int32Value(2)}
MaxPairs == 3

\* argument lists of at most MaxPairs pairs with pairwise distinct keys of
\* one type
PairLists ==
    UNION {UNION {{ps \in [1..n -> {DictValueField(key, v) : key \in fam, v \in DictPayloads}] :
                      \A i, j \in 1..n : i # j => ps[i].K # ps[j].K} : n \in 0..MaxPairs} :
              fam \in DictKeyFamilies}

InitDict ==
    /\ \E ps \in PairLists : \E qs \in Reorderings(ps) : arg = [a |-> ps, b |-> qs]
    /\ out = None
    /\ fpc = "args"
    /\ RestIdle

\* DictValue(values...): values[0] is out of range for an empty argument list
DictValueCall(values) == IF values = <<>> THEN Panic ELSE Ok(DictValue(values))

\* the two constructor calls
BuildDicts ==
    /\ fpc = "args"
    /\ out' = [a |-> DictValueCall(arg.a), b |-> DictValueCall(arg.b),
               pairsA |-> <<>>, pairsB |-> <<>>]
    /\ fpc' = "built"
    /\ UNCHANGED <<arg, codecVars, structVars, balancerVars>>

\* both dicts are encoded
EncodeDicts ==
    /\ fpc = "built"
    /\ out.a.ok /\ out.b.ok
    /\ out' = [out EXCEPT !.pairsA = toYDB(out.a.v).pairs,
                          !.pairsB = toYDB(out.b.v).pairs]
    /\ fpc' = "encoded"
    /\ UNCHANGED <<arg, codecVars, structVars, balancerVars>>

-----------------------------------------------------------------------------
(* castTo: a value is cast into a destination of a given kind              *)

\* destination kinds: *bool, *string, *[]byte, *int8 .. *int64,
\* *uint8 .. *uint64, *float32, *float64, *time.Time, *time.Duration, *[16]byte
DstKinds ==
    {"bool", "string", "bytes", "i8", "i16", "i32", "i64", "u8", "u16", "u32",
     "u64", "f32", "f64", "time", "duration", "b16"}

\* the cases of each scalar kind's castTo switch
BoolDsts == {"bool", "string"}
DateDsts == {"time", "u64", "i64", "i32"}
DatetimeDsts == {"time", "u64", "i64", "u32"}
TimestampDsts == {"time", "u64"}
IntervalDsts == {"duration", "i64"}
DoubleDsts == {"string", "bytes", "f64"}
FloatDsts == {"string", "bytes", "f64", "f32"}
Int8DstsNoInt16 == {"string", "bytes", "i64", "i32", "i8", "f64", "f32"}
Int8Dsts == {"string", "bytes", "i64", "i32", "i16", "i8", "f64", "f32"}
Int16Dsts == {"string", "bytes", "i64", "i32", "i16", "f64", "f32"}
Int32Dsts == {"string", "bytes", "i64", "i32", "f64", "f32"}
Int64DstsNarrowing == {"string", "bytes", "i64", "i32", "f64"}
Int64Dsts == {"string", "bytes", "i64", "f64"}
Uint8Dsts ==
    {"string", "bytes", "u64", "i64", "u32", "i32", "u16", "i16", "u8", "f64", "f32"}
Uint16Dsts == {"string", "bytes", "u64", "i64", "u32", "i32", "u16", "f32", "f64"}
Uint32Dsts == {"string", "bytes", "u64", "i64", "u32", "f64"}
Uint64Dsts == {"string", "bytes", "u64"}
StringDsts == {"string", "bytes"}
UUIDDsts == {"string", "bytes", "b16"}

Accepted(kind) ==
    CASE kind = "Bool" -> BoolDsts
      [] kind = "Date" -> DateDsts
      [] kind = "Datetime" -> DatetimeDsts
      [] kind = "Timestamp" -> TimestampDsts
      [] kind = "Interval" -> IntervalDsts
      [] kind = "Double" -> DoubleDsts
      [] kind = "Float" -> FloatDsts
      [] kind = "Int8" -> Int8Dsts
      [] kind = "Int16" -> Int16Dsts
      [] kind = "Int32" -> Int32Dsts
      [] kind = "Int64" -> Int64Dsts
      [] kind = "Uint8" -> Uint8Dsts
      [] kind = "Uint16" -> Uint16Dsts
      [] kind = "Uint32" -> Uint32Dsts
      [] kind = "Uint64" -> Uint64Dsts
      [] kind = "UUID" -> UUIDDsts
      [] kind \in StrKinds -> StringDsts

\* strconv.FormatBool
FormatBool(b) == IF b THEN <<116, 114, 117, 101>> ELSE <<102, 97, 108, 115, 101>>

\* Go's conversion of n to the destination's integer type; the 32- and 64-bit
\* conversions are exact on the values of the model
ToDst(dst, n) ==
    CASE dst = "i8" -> ToInt8(n)
      [] dst = "i16" -> ToInt16(n)
      [] dst = "u8" -> ToUint8(n)
      [] dst = "u16" -> ToUint16(n)
      [] OTHER -> n

\* a time.Time: seconds and microseconds since the epoch, and its location
DateToTime(n) == [sec |-> n * 86400, usec |-> 0, loc |-> "Local"]
DatetimeToTime(n) == [sec |-> n, usec |-> 0, loc |-> "Local"]
TimestampToTime(n) == [sec |-> n \div 1000000, usec |-> n % 1000000, loc |-> "Local"]
\* t.UTC(): the same instant in UTC
UTC(t) == [t EXCEPT !.loc = "UTC"]
\* a time.Duration in nanoseconds
IntervalToDuration(n) == n * 1000

\* what an accepted scalar cast stores in the destination
CastStore(v, dst) ==
    CASE dst = "bool" -> [kind |-> dst, b |-> v.b]
      [] dst \in {"string", "bytes"} ->
            [kind |-> dst,
             s |-> CASE v.k = "Bool" -> FormatBool(v.b)
                     [] v.k \in NumKinds -> FormatInt(v.n)
                     [] v.k = "UUID" -> v.value
                     [] OTHER -> v.s]
      [] dst = "b16" -> [kind |-> dst, s |-> v.value]
      [] dst = "time" ->
            [kind |-> dst,
             t |-> CASE v.k = "Date" -> UTC(DateToTime(v.n))
                     [] v.k = "Datetime" -> UTC(DatetimeToTime(v.n))
                     [] OTHER -> UTC(TimestampToTime(v.n))]
      [] dst = "duration" -> [kind |-> dst, ns |-> IntervalToDuration(v.n)]
      [] OTHER -> [kind |-> dst, n |-> ToDst(dst, v.n)]

\* the errors of castTo
CastError == [ok |-> FALSE, err |-> "CastError"]
OptionalNilError == [ok |-> FALSE, err |-> "OptionalNilError"]

RECURSIVE castToVariantRefuses(_, _)
\* a castTo whose Variant refuses every destination
castToVariantRefuses(v, dst) ==
    CASE v.k = "optional" ->
            IF v.value = Nil THEN OptionalNilError ELSE castToVariantRefuses(v.value, dst)
      [] v.k = "tuple" ->
            IF Len(v.items) = 1 THEN castToVariantRefuses(v.items[1], dst) ELSE CastError
      [] v.k \in {"variant", "list", "struct", "dict", "decimal", "void"} -> CastError
      [] OTHER -> IF dst \in Accepted(v.k) THEN Ok(CastStore(v, dst)) ELSE CastError

RECURSIVE castTo(_, _)
\* Value.castTo(dst): the value stored in the destination, or the error
castTo(v, dst) ==
    CASE v.k = "optional" ->
            IF v.value = Nil THEN OptionalNilError ELSE castTo(v.value, dst)
      [] v.k = "tuple" ->
            IF Len(v.items) = 1 THEN castTo(v.items[1], dst) ELSE CastError
      [] v.k = "variant" -> castTo(v.value, dst)
      [] v.k \in {"list", "struct", "dict", "decimal", "void"} -> CastError
      [] OTHER -> IF dst \in Accepted(v.k) THEN Ok(CastStore(v, dst)) ELSE CastError

\* the values cast: every scalar kind, the containers, optionals
CastSources ==
    Scalars \cup Lists \cup Tuples \cup Structs \cup Dicts \cup Variants
    \cup {NumValue("Int8", 5), NumValue("Int8", -128), NumValue("Int16", -300),
          NumValue("Int64", -7), NumValue("Uint8", 255), NumValue("Uint32", 70000),
          NumValue("Timestamp", 1000001),
          OptionalValue(Int32Value(1)), NullValue(Primitive("Int32")),
          TupleValue(<<TupleValue(<<Int32Value(1)>>)>>),
          TupleValue(<<ListValue(<<Int32Value(1)>>)>>)}

InitCast ==
    /\ \E v \in CastSources : \E dst \in DstKinds : arg = [v |-> v, dst |-> dst]
    /\ out = None
    /\ fpc = "args"
    /\ RestIdle

\* err := v.castTo(dst)
CastTo ==
    /\ fpc = "args"
    /\ out' = castTo(arg.v, arg.dst)
    /\ fpc' = "done"
    /\ UNCHANGED <<arg, codecVars, structVars, balancerVars>>

-----------------------------------------------------------------------------
(* ListValue on item lists of one type and of mixed types                  *)

\* Type.equalsTo
equalsTo(a, b) == a = b

\* ListValue(items...): panics when the item-type check fails; the check
\* compares every item's type with itself
ListValueCall(items) ==
    IF \E i \in DOMAIN items : ~equalsTo(TypeOf(items[i]), TypeOf(items[i]))
    THEN Panic
    ELSE Ok(ListValue(items))

ListItems ==
    Elems \cup {OptionalValue(Int32Value(1)), NullValue(Primitive("Int32"))}
MaxItems == 3

InitList ==
    /\ arg \in UNION {[1..n -> ListItems] : n \in 0..MaxItems}
    /\ out = None
    /\ fpc = "args"
    /\ RestIdle

\* the constructor call
BuildList ==
    /\ fpc = "args"
    /\ out' = ListValueCall(arg)
    /\ fpc' = "done"
    /\ UNCHANGED <<arg, codecVars, structVars, balancerVars>>

-----------------------------------------------------------------------------
(* ZeroValue                                                               *)

RECURSIVE ZeroValue(_)
\* ZeroValue(t); the switch has a case for *voidType, while the Void type is
\* the value voidType{}, and no case for the Null and EmptyList types: those
\* types reach the default branch, which panics
ZeroValue(t) ==
    CASE t.k = "primitive" ->
            \* zeroPrimitiveValue
            (CASE t.id = "Bool" -> Ok(BoolValue(FALSE))
               [] t.id \in NumKinds -> Ok(NumValue(t.id, 0))
               [] t.id \in StrKinds -> Ok(StrValue(t.id, <<>>))
               [] t.id = "UUID" -> Ok(UUIDValue(BigEndianUint128(0, 0)))
               [] OTHER -> Panic)
      [] t.k = "optional" -> Ok(NullValue(t.innerType))
      [] t.k = "list" -> Ok([k |-> "list", t |-> t, items |-> <<>>])
      [] t.k = "tuple" ->
            LET rs == [i \in DOMAIN t.items |-> ZeroValue(t.items[i])]
            IN IF AnyFailed(rs) THEN Panic
               ELSE Ok([k |-> "tuple", t |-> t, items |-> [i \in DOMAIN rs |-> rs[i].v]])
      [] t.k = "struct" ->
            LET rs == [i \in DOMAIN t.fields |-> ZeroValue(t.fields[i].T)]
            IN IF AnyFailed(rs) THEN Panic
               ELSE Ok(StructValue([i \in DOMAIN rs |->
                          StructValueField(t.fields[i].Name, rs[i].v)]))
      [] t.k = "dict" -> Ok([k |-> "dict", t |-> t, values |-> <<>>])
      [] t.k = "decimal" -> Ok(DecimalValue(BigEndianUint128(0, 0), 22, 9))
      [] t.k = "variant" ->
            LET r == ZeroValue(t.innerType)
            IN IF ~r.ok THEN Panic ELSE Ok(VariantValue(r.v, 0, t.innerType))
      [] OTHER -> Panic

\* element types of the container types ZeroValue is applied to
ZeroElemTypes ==
    {Primitive("Int32"), Primitive("Text"), Primitive("Bool"), Primitive("UUID"),
     Optional(Primitive("Int32")), DecimalType(10, 2), VoidType}

ZeroTypes ==
    {Primitive(id) : id \in PrimitiveKinds}
    \cup ZeroElemTypes
    \cup {Optional(Optional(Primitive("Int32"))), DecimalType(22, 9), NullType,
          EmptyList, List(Primitive("Int32")),
          Dict(Primitive("Text"), Primitive("Int32")), Tuple(<<>>), Struct(<<>>)}
    \cup {Tuple(<<a>>) : a \in ZeroElemTypes}
    \cup {Tuple(<<a, b>>) : a, b \in ZeroElemTypes}
    \cup {Struct(<<StructField(StrA, a), StructField(StrB, b)>>) : a, b \in ZeroElemTypes}
    \cup {Variant(Tuple(<<a, Primitive("Text")>>)) : a \in ZeroElemTypes}
    \cup {Variant(Struct(<<StructField(StrA, a)>>)) : a \in ZeroElemTypes}
    \cup {Tuple(<<Tuple(<<Primitive("Int32")>>), List(Primitive("Text"))>>)}

InitZero ==
    /\ arg \in ZeroTypes
    /\ out = None
    /\ fpc = "args"
    /\ RestIdle

\* v := ZeroValue(t)
ZeroOf ==
    /\ fpc = "args"
    /\ out' = ZeroValue(arg)
    /\ fpc' = "done"
    /\ UNCHANGED <<arg, codecVars, structVars, balancerVars>>

-----------------------------------------------------------------------------
(* decimalValue.toString                                                   *)

\* the 16-byte two's complement buffer of a number that fits 64 bits: each
\* half is written as the signed reading of its 64 bits, so the high half of
\* a negative number (all ones) is -1
Int128(n) == BigEndianUint128(IF n < 0 THEN -1 ELSE 0, n)

\* decimal.FromBytes(buf, precision, scale): the big.Int of the buffer, for
\* the buffers Int128 builds
FromBytes(b, precision, scale) ==
    CASE b[1] = 0 /\ b[2] >= 0 -> b[2]
      [] b[1] = -1 /\ b[2] < 0 -> b[2]

\* decimalValue.toString(): s is sliced at len(s) - scale, which panics
\* when s is shorter than scale
decimalValue_toString(v) ==
    LET str == FormatInt(FromBytes(v.value, v.innerType.Precision, v.innerType.Scale))
        cut == Len(str) - v.innerType.Scale
    IN IF cut < 0 THEN Panic
       ELSE Ok(SubSeq(str, 1, cut) \o <<46>> \o SubSeq(str, cut + 1, Len(str)))

DecimalInts == {0, 1, -1, 5, -5, 12, -12, 123, -123, 999, 12345, 1000000000, -1000000000}
DecimalScales == {0, 1, 2, 3, 9}

InitDecimal ==
    /\ \E n \in DecimalInts : \E scale \in DecimalScales :
          arg = [n |-> n, v |-> DecimalValue(Int128(n), 22, scale)]
    /\ out = None
    /\ fpc = "args"
    /\ RestIdle

\* s := v.toString()
DecimalToString ==
    /\ fpc = "args"
    /\ out' = decimalValue_toString(arg.v)
    /\ fpc' = "done"
    /\ UNCHANGED <<arg, codecVars, structVars, balancerVars>>

-----------------------------------------------------------------------------
(* Decoding a chain of NestedValue wrappers that ends in a NullFlag        *)

RECURSIVE NullChain(_)
\* k NestedValue wrappers around a NullFlag
NullChain(k) ==
    IF k = 0 THEN [ZeroNode EXCEPT !.value = NullFlag]
    ELSE [ZeroNode EXCEPT !.value = Nested(NullChain(k - 1))]

MaxDepth == 2

\* the types a chain is decoded against
ChainTypes ==
    {Primitive(id) : id \in PrimitiveKinds}
    \cup {Optional(Primitive("Int32")), Optional(Primitive("Text")),
          Optional(Optional(Primitive("Int32"))),
          Optional(Optional(Optional(Primitive("Int32")))),
          Optional(List(Primitive("Int32"))), Optional(Optional(Primitive("UUID"))),
          VoidType, DecimalType(22, 9), List(Primitive("Int32")),
          Tuple(<<Primitive("Int32")>>), Tuple(<<>>),
          Struct(<<StructField(StrA, Primitive("Int32"))>>),
          Dict(Primitive("Text"), Primitive("Int32")),
          Variant(Tuple(<<Primitive("Int32"), Primitive("Text")>>))}

InitChain ==
    /\ \E t \in ChainTypes : \E depth \in 0..MaxDepth :
          arg = [t |-> t, depth |-> depth, v |-> NullChain(depth)]
    /\ out = None
    /\ fpc = "args"
    /\ RestIdle

\* FromYDB(t, v) on the chain
DecodeChain ==
    /\ fpc = "args"
    /\ out' = FromYDB(TypeToYDB(arg.t), arg.v)
    /\ fpc' = "done"
    /\ UNCHANGED <<arg, codecVars, structVars, balancerVars>>

-----------------------------------------------------------------------------
(* Decoding wire values against declared types, fitting or not             *)

LeafInt32(n) == [ZeroNode EXCEPT !.value = [f |-> "int32_value", n |-> n]]
LeafText(str) == [ZeroNode EXCEPT !.value = [f |-> "text_value", s |-> str]]

WireLeaves == {LeafInt32(1), LeafInt32(2), LeafText(StrY), NullChain(0)}
MaxWireItems == 3

\* leaves, nodes of up to MaxWireItems items, nodes of pairs, nested nodes
WireValues ==
    WireLeaves
    \cup UNION {{[ZeroNode EXCEPT !.items = its] : its \in [1..n -> WireLeaves]} :
                   n \in 0..MaxWireItems}
    \cup {[ZeroNode EXCEPT !.pairs = <<[key |-> LeafText(StrY), payload |-> LeafInt32(1)]>>],
          [ZeroNode EXCEPT !.pairs = <<[key |-> LeafText(StrY), payload |-> LeafInt32(1)],
                                       [key |-> LeafText(StrA), payload |-> LeafInt32(2)]>>]}
    \cup {[ZeroNode EXCEPT !.value = Nested(w)] : w \in WireLeaves}
    \cup {[ZeroNode EXCEPT !.value = Nested([ZeroNode EXCEPT !.items = <<LeafInt32(1), LeafText(StrY)>>]),
                           !.variant_index = 1]}

\* the declared types; StructBA declares its fields as (b, a)
StructBA == Struct(<<StructField(StrB, Primitive("Text")), StructField(StrA, Primitive("Int32"))>>)
StructAB == Struct(<<StructField(StrA, Primitive("Int32")), StructField(StrB, Primitive("Text"))>>)
DeclaredTypes ==
    {Primitive("Int32"), Primitive("Text"), Primitive("YSON"),
     Optional(Primitive("Int32")), List(Primitive("Int32")), EmptyList,
     Tuple(<<Primitive("Int32"), Primitive("Text")>>), StructBA, StructAB,
     Dict(Primitive("Text"), Primitive("Int32")),
     Variant(Tuple(<<Primitive("Int32"), Primitive("Text")>>)),
     DecimalType(22, 9), VoidType, NullType}

InitDecode ==
    /\ \E t \in DeclaredTypes : \E v \in WireValues : arg = [t |-> t, v |-> v]
    /\ out = None
    /\ fpc = "args"
    /\ RestIdle

\* FromYDB(t, v)
DecodeWire ==
    /\ fpc = "args"
    /\ out' = FromYDB(TypeToYDB(arg.t), arg.v)
    /\ fpc' = "done"
    /\ UNCHANGED <<arg, codecVars, structVars, balancerVars>>

-----------------------------------------------------------------------------
(* Discovery: discoveryClient.Discover                                     *)

\* an entry of ListEndpointsResult.Endpoints
EndpointInfo(address, port, load_factor, ssl, location) ==
    [address |-> address, port |-> port, load_factor |-> load_factor,
     ssl |-> ssl, location |-> location]

\* the Endpoint literal Discover builds: Addr, Port and Local are set,
\* LoadFactor keeps the zero value
Endpoint(e, self_location) ==
    [Addr |-> e.address, Port |-> e.port, LoadFactor |-> 0,
     Local |-> (e.location = self_location)]

\* a filter that lets every endpoint through
SslMatchesAny(e, d) == TRUE

\* if e.Ssl == d.ssl
SslMatches(e, d) == e.ssl = d.ssl

RECURSIVE Collect(_, _, _)
\* the loop over listEndpointsResult.Endpoints
Collect(es, d, self_location) ==
    IF es = <<>> THEN <<>>
    ELSE (IF SslMatches(Head(es), d) THEN <<Endpoint(Head(es), self_location)>> ELSE <<>>)
         \o Collect(Tail(es), d, self_location)

\* Discover(ctx): (endpoints, err); a nil slice is the empty sequence
Discover(d, outcome, result) ==
    IF outcome # "ok" THEN [endpoints |-> <<>>, err |-> outcome]
    ELSE [endpoints |-> Collect(result.endpoints, d, result.self_location),
          err |-> "nil"]

\* what ListEndpoints and proto.Unmarshal may do
Outcomes == {"ok", "rpc error", "unmarshal error"}

\* load factors in tenths
EndpointInfos ==
    {EndpointInfo(a, 2135, lf, ssl, loc) :
        a \in {StrA, StrB}, lf \in {0, 5}, ssl \in BOOLEAN, loc \in {StrA, StrB}}
MaxEndpoints == 2

InitDiscover ==
    /\ \E ssl \in BOOLEAN : \E outcome \in Outcomes : \E self \in {StrA, StrB} :
       \E es \in UNION {[1..n -> EndpointInfos] : n \in 0..MaxEndpoints} :
          arg = [d |-> [ssl |-> ssl], outcome |-> outcome,
                 result |-> [endpoints |-> es, self_location |-> self]]
    /\ out = None
    /\ fpc = "args"
    /\ RestIdle

\* endpoints, err := d.Discover(ctx)
DiscoverCall ==
    /\ fpc = "args"
    /\ out' = Discover(arg.d, arg.outcome, arg.result)
    /\ fpc' = "done"
    /\ UNCHANGED <<arg, codecVars, structVars, balancerVars>>

-----------------------------------------------------------------------------
(* Ownership of the payload: castTo a destination, then a write through it *)

\* the buffer a destination refers to after an accepted castTo: a Bytes or
\* YSON value assigns its own slice (*vv = v), a UUID value a slice of its
\* own array (*vv = v.value[:]); string(v), []byte(v) of a string and the
\* assignment of a [16]byte array copy the bytes
CastTarget(kind, dst) ==
    IF dst = "bytes" /\ kind \in {"Bytes", "YSON", "UUID"} THEN "payload" ELSE "copy"

\* the kinds with a byte payload, and their payloads (a UUID's 16 bytes are
\* the cells of its buffer)
PayloadKinds == {"Bytes", "YSON", "UUID", "Text"}
Payloads == {StrA, StrAB, <<97, 98, 99>>}

InitOwn ==
    /\ \E kind \in PayloadKinds : \E bytes \in Payloads :
       \E dst \in Accepted(kind) \ {"string"} :
       \E i \in 1..3 : \E b \in {120, 0} :
          /\ i <= Len(bytes)
          /\ arg = [kind |-> kind, payload |-> bytes, dst |-> dst, i |-> i, b |-> b]
    /\ out = None
    /\ fpc = "args"
    /\ RestIdle

\* err := v.castTo(&dst)
CastToBuffer ==
    /\ fpc = "args"
    /\ out' = [heap |-> [payload |-> arg.payload, copy |-> arg.payload],
               dst |-> CastTarget(arg.kind, arg.dst),
               before |-> arg.payload,
               after |-> <<>>]
    /\ fpc' = "cast"
    /\ UNCHANGED <<arg, codecVars, structVars, balancerVars>>

\* dst[i] = b
WriteThrough ==
    /\ fpc = "cast"
    /\ out' = [out EXCEPT !.heap[out.dst][arg.i] = arg.b]
    /\ fpc' = "written"
    /\ UNCHANGED <<arg, codecVars, structVars, balancerVars>>

\* s := v.toString(): the bytes of the value's payload
ReadBack ==
    /\ fpc = "written"
    /\ out' = [out EXCEPT !.after = out.heap.payload]
    /\ fpc' = "done"
    /\ UNCHANGED <<arg, codecVars, structVars, balancerVars>>

-----------------------------------------------------------------------------
(* The decimal text of the unsigned integer values                         *)

\* a 64-bit quantity written as base + off, the base one of 0, 2^32, 2^63 and
\* 2^64 and the offset a small integer, so that the values around the powers
\* of two are exact
Wide(base, off) == [base |-> base, off |-> off]

\* the characters of a sequence of decimal digits
Chars(ds) == [i \in 1..Len(ds) |-> 48 + ds[i]]

\* the decimal digits of the bases
Pow2Digits(base) ==
    CASE base = "2^32" -> Chars(<<4, 2, 9, 4, 9, 6, 7, 2, 9, 6>>)
      [] base = "2^63" -> Chars(<<9, 2, 2, 3, 3, 7, 2, 0, 3, 6, 8, 5, 4, 7, 7, 5, 8, 0, 8>>)
      [] base = "2^64" -> Chars(<<1, 8, 4, 4, 6, 7, 4, 4, 0, 7, 3, 7, 0, 9, 5, 5, 1, 6, 1, 6>>)

RECURSIVE DigitsAdd(_, _)
\* the decimal text of d + k, for a decimal text d and a natural k
DigitsAdd(d, k) ==
    IF k = 0 THEN d
    ELSE IF d = <<>> THEN FormatUint(k)
    ELSE LET sum == (d[Len(d)] - 48) + k
         IN  Append(DigitsAdd(SubSeq(d, 1, Len(d) - 1), sum \div 10), 48 + (sum % 10))

RECURSIVE DigitsSub(_, _)
\* the decimal text of d - k, for a decimal text d and a natural k far below d
DigitsSub(d, k) ==
    IF k = 0 THEN d
    ELSE LET diff == (d[Len(d)] - 48) - (k % 10)
             borrow == IF diff < 0 THEN 1 ELSE 0
         IN  Append(DigitsSub(SubSeq(d, 1, Len(d) - 1), (k \div 10) + borrow),
                    48 + diff + (10 * borrow))

\* strconv.FormatUint(w, 10) of a 64-bit quantity
FormatUint64(w) ==
    IF w.base = "0" THEN FormatUint(w.off)
    ELSE IF w.off >= 0 THEN DigitsAdd(Pow2Digits(w.base), w.off)
    ELSE DigitsSub(Pow2Digits(w.base), -w.off)

\* uint64(v): exact for every unsigned kind
ToUint64(v) == v.w

\* int64(v), as sign and magnitude: exact for the 8-, 16- and 32-bit kinds;
\* a uint64 of 2^63 and above wraps to v - 2^64
ToInt64(v) ==
    IF v.k = "Uint64" /\ v.w.base = "2^63" /\ v.w.off >= 0
    THEN [neg |-> TRUE, mag |-> Wide("2^63", -v.w.off)]
    ELSE IF v.k = "Uint64" /\ v.w.base = "2^64"
    THEN [neg |-> TRUE, mag |-> Wide("0", -v.w.off)]
    ELSE [neg |-> FALSE, mag |-> v.w]

\* strconv.FormatInt(i, 10) of a 64-bit quantity
FormatInt64(i) == IF i.neg THEN <<45>> \o FormatUint64(i.mag) ELSE FormatUint64(i.mag)

\* uint8Value.toString, uint16Value.toString, uint32Value.toString and
\* uint64Value.toString
uintValue_toString(v) == FormatUint64(ToUint64(v))

\* the *string and *[]byte cases of uint8Value.castTo, uint16Value.castTo,
\* uint32Value.castTo and uint64Value.castTo
uintValue_castTo(v, dst) == [kind |-> dst, s |-> FormatInt64(ToInt64(v))]

\* the unsigned values: every Uint8, and the Uint16, Uint32 and Uint64 values
\* around the powers of two
UintValues ==
    {[k |-> "Uint8", w |-> Wide("0", n)] : n \in 0..255}
    \cup {[k |-> "Uint16", w |-> Wide("0", n)] : n \in {0, 255, 256, 32767, 32768, 65535}}
    \cup {[k |-> "Uint32", w |-> Wide("0", n)] : n \in {0, 65535, 65536, 2147483647}}
    \cup {[k |-> "Uint32", w |-> Wide("2^32", n)] : n \in {-2147483647, -10, -1}}
    \cup {[k |-> "Uint64", w |-> Wide("0", n)] : n \in {0, 9, 10, 2147483647}}
    \cup {[k |-> "Uint64", w |-> Wide("2^32", n)] : n \in {-1, 0, 1}}
    \cup {[k |-> "Uint64", w |-> Wide("2^63", n)] : n \in {-193, -1, 0, 1, 192, 4192}}
    \cup {[k |-> "Uint64", w |-> Wide("2^64", n)] : n \in {-1617, -16, -1}}

InitUint ==
    /\ arg \in UintValues
    /\ out = None
    /\ fpc = "args"
    /\ RestIdle

\* s := v.toString()
UintToString ==
    /\ fpc = "args"
    /\ out' = [str |-> uintValue_toString(arg)]
    /\ fpc' = "text"
    /\ UNCHANGED <<arg, codecVars, structVars, balancerVars>>

\* err := v.castTo(&dst), dst a string or a []byte
UintCastTo ==
    /\ fpc = "text"
    /\ \E dst \in {"string", "bytes"} :
          out' = [str |-> out.str, cast |-> uintValue_castTo(arg, dst)]
    /\ fpc' = "done"
    /\ UNCHANGED <<arg, codecVars, structVars, balancerVars>>

-----------------------------------------------------------------------------
(* The balancer                                                            *)

\* connection states
Online == "Online"
Banned == "Banned"

\* load factors in tenths: 0, 0.2, 1.0, 2.0 and 3.0
LoadFactors == {0, 2, 10, 20, 30}

\* number of Insert calls explored; element handles are 1..MaxInserts
MaxInserts == 3

\* Next() returns the handle of the chosen element, or nil
NoConn == 0

OnlineOf(c) == {e \in DOMAIN c : c[e].state = Online}

SetMin(S) == CHOOSE x \in S : \A y \in S : x <= y
SetMax(S) == CHOOSE x \in S : \A y \in S : x >= y

\* a selector that does not skip Banned elements
CandidatesAll(c) == DOMAIN c

\* the elements Next() may choose: the Online ones, and every element when
\* all of them are Banned
Candidates(c) == IF OnlineOf(c) # {} THEN OnlineOf(c) ELSE DOMAIN c

\* a selector that ignores the load factors once every element is Banned
WeightUniformBanned(c, e) ==
    LET loads == {c[x].loadFactor : x \in DOMAIN c}
        lo == SetMin(loads)
        hi == SetMax(loads)
        n == Cardinality(DOMAIN c)
    IN IF e \notin Candidates(c) THEN 0
       ELSE IF hi = lo \/ OnlineOf(c) = {} THEN 1
       ELSE 1 + (((hi - c[e].loadFactor) * (n - 1)) \div (hi - lo))

\* a selector whose weights are proportional to 1 / max(loadFactor, epsilon)
WeightInverseLoad(c, e) ==
    LET loads == {c[x].loadFactor : x \in DOMAIN c}
        hi == SetMax(loads)
        AtLeast1(x) == IF x < 1 THEN 1 ELSE x
    IN IF e \notin Candidates(c) THEN 0
       ELSE AtLeast1(hi) \div AtLeast1(c[e].loadFactor)

\* the weight of element e: the load factors are scaled to 1..n, n the number
\* of elements, the lowest load factor getting the highest weight
Weight(c, e) ==
    LET loads == {c[x].loadFactor : x \in DOMAIN c}
        lo == SetMin(loads)
        hi == SetMax(loads)
        n == Cardinality(DOMAIN c)
    IN IF e \notin Candidates(c) THEN 0
       ELSE IF hi = lo THEN 1
       ELSE 1 + (((hi - c[e].loadFactor) * (n - 1)) \div (hi - lo))

RECURSIVE Repeat(_, _)
Repeat(e, n) == IF n = 0 THEN <<>> ELSE <<e>> \o Repeat(e, n - 1)

RECURSIVE BeltFrom(_, _)
BeltFrom(c, e) ==
    IF e > MaxInserts THEN <<>>
    ELSE (IF e \in DOMAIN c THEN Repeat(e, Weight(c, e)) ELSE <<>>) \o BeltFrom(c, e + 1)

\* the distribution rebuilt after every change: Weight(c, e) slots per element
Distribute(c) == BeltFrom(c, 1)

\* how many slots of the belt element e holds
Slots(b, e) == Cardinality({i \in DOMAIN b : b[i] = e})

NextId == Cardinality(DOMAIN conns \cup removed) + 1

InitBalancer ==
    /\ conns = <<>>
    /\ removed = {}
    /\ belt = <<>>
    /\ op = "new"
    /\ perr = "nil"
    /\ pcaused = FALSE
    /\ parg = 0
    /\ got = NoConn
    /\ val = None /\ wire = None /\ res = None /\ cpc = "idle"
    /\ fieldsA = <<>> /\ fieldsB = <<>> /\ svA = None /\ svB = None
    /\ itemsA = <<>> /\ itemsB = <<>> /\ spc = "idle"
    /\ arg = None /\ out = None /\ fpc = "idle"

\* Insert(conn, info): a new element in Online state
Insert(lf) ==
    /\ NextId <= MaxInserts
    /\ LET c == [e \in DOMAIN conns \cup {NextId} |->
                    IF e = NextId THEN [state |-> Online, loadFactor |-> lf]
                    ELSE conns[e]]
       IN /\ conns' = c
          /\ belt' = Distribute(c)
    /\ op' = "Insert"
    /\ got' = NoConn
    /\ UNCHANGED <<removed, parg, perr, pcaused, codecVars, structVars, fnVars>>

\* a Remove that leaves the element in the table
RemoveFromKeeps(c, e) == c

\* the element table without element e
RemoveFrom(c, e) == [x \in DOMAIN c \ {e} |-> c[x]]

\* Remove(e): removes the element by handle
Remove(e) ==
    /\ e \in DOMAIN conns
    /\ LET c == RemoveFrom(conns, e)
       IN /\ conns' = c
          /\ belt' = Distribute(c)
    /\ removed' = removed \cup {e}
    /\ op' = "Remove"
    /\ got' = NoConn
    /\ UNCHANGED <<parg, perr, pcaused, codecVars, structVars, fnVars>>

\* a Pessimize that reports the ban of the last Online element
PessimizeResultAllBanned(c, e) ==
    IF OnlineOf(c) = {e} THEN "AllBannedError" ELSE "nil"

\* what Pessimize returns for an element of the set: the tests require a nil
\* error from every call, also from the one that bans the last Online element
PessimizeResult(c, e) == "nil"

\* Pessimize(e): the element becomes Banned
Pessimize(e) ==
    /\ e \in DOMAIN conns
    /\ LET c == [conns EXCEPT ![e].state = Banned]
       IN /\ conns' = c
          /\ belt' = Distribute(c)
    /\ parg' = e
    /\ perr' = PessimizeResult(conns, e)
    /\ pcaused' = (OnlineOf(conns) = {e})
    /\ op' = "Pessimize"
    /\ got' = NoConn
    /\ UNCHANGED <<removed, codecVars, structVars, fnVars>>

\* a Next() that gives up when no element is Online
NextResultsOnlineOnly(c, b) ==
    IF OnlineOf(c) = {} THEN {NoConn} ELSE {b[i] : i \in DOMAIN b}

\* what Next() may return: nil for the empty set, else the element of any
\* slot of the belt
NextResults(c, b) ==
    IF DOMAIN c = {} THEN {NoConn} ELSE {b[i] : i \in DOMAIN b}

\* Next()
NextConn ==
    /\ got' \in NextResults(conns, belt)
    /\ op' = "Next"
    /\ UNCHANGED <<conns, removed, belt, parg, perr, pcaused, codecVars, structVars, fnVars>>

-----------------------------------------------------------------------------
(* Specifications                                                          *)

NextCodec == Encode \/ Decode
SpecCodec == InitCodec /\ [][NextCodec]_vars

NextStruct == BuildStructs \/ EncodeStructs
SpecStruct == InitStruct /\ [][NextStruct]_vars

NextDict == BuildDicts \/ EncodeDicts
SpecDict == InitDict /\ [][NextDict]_vars

NextCast == CastTo
SpecCast == InitCast /\ [][NextCast]_vars

NextList == BuildList
SpecList == InitList /\ [][NextList]_vars

NextZero == ZeroOf
SpecZero == InitZero /\ [][NextZero]_vars

NextDecimal == DecimalToString
SpecDecimal == InitDecimal /\ [][NextDecimal]_vars

NextChain == DecodeChain
SpecChain == InitChain /\ [][NextChain]_vars

NextDecode == DecodeWire
SpecDecode == InitDecode /\ [][NextDecode]_vars

NextDiscover == DiscoverCall
SpecDiscover == InitDiscover /\ [][NextDiscover]_vars

NextOwn == CastToBuffer \/ WriteThrough \/ ReadBack
SpecOwn == InitOwn /\ [][NextOwn]_vars

NextUint == UintToString \/ UintCastTo
SpecUint == InitUint /\ [][NextUint]_vars

NextBalancer ==
    \/ \E lf \in LoadFactors : Insert(lf)
    \/ \E e \in 1..MaxInserts : Remove(e)
    \/ \E e \in 1..MaxInserts : Pessimize(e)
    \/ NextConn
SpecBalancer == InitBalancer /\ [][NextBalancer]_vars

-----------------------------------------------------------------------------
(* Properties of the codec                                                 *)

\* C1: decoding a value's own encoding returns a structurally equal value,
\* FromYDB(v.Type().toYDB(), v.toYDB()) == v
C1_RoundTrip == cpc = "decoded" => res = Ok(val)

\* the payload of val is present and is not itself an optional
PresentPlainPayload ==
    val.k = "optional" /\ val.value # Nil /\ val.value.k # "optional"

\* C2: an OptionalValue(x) with x present and not an optional encodes to x's
\* own wire value: leaf field, items, pairs, high_128 and variant_index
C2_OptionalEmitsPayload ==
    (cpc = "encoded" /\ PresentPlainPayload) => wire.value = toYDB(val.value)

RECURSIVE NullLevel(_)
\* the optional level at which a value holds NULL (0 = the outermost),
\* -1 when it is present at every level
NullLevel(v) ==
    IF v.k # "optional" THEN -1
    ELSE IF v.value = Nil THEN 0
    ELSE IF NullLevel(v.value) < 0 THEN -1
    ELSE NullLevel(v.value) + 1

OptOptInt32 == Optional(Optional(Primitive("Int32")))

\* C3: NULL of Optional<Optional<Int32>> encodes differently from NULL of
\* Optional<Int32>, and every value of type Optional<Optional<Int32>> decodes
\* to a value with the NULL at the same nesting level
C3_NestedNullShape ==
    /\ (cpc = "encoded" /\ val = NullValue(Optional(Primitive("Int32"))))
          => wire # ToYDB(NullValue(Primitive("Int32")))
    /\ (cpc = "decoded" /\ TypeOf(val) = OptOptInt32)
          => /\ res.ok
             /\ TypeOf(res.v) = OptOptInt32
             /\ NullLevel(res.v) = NullLevel(val)

-----------------------------------------------------------------------------
(* Properties of StructValue                                               *)

\* the names of a field sequence are strictly ascending
Ascending(fs) == \A i \in 1..(Len(fs) - 1) : StrLess(fs[i].Name, fs[i + 1].Name)

\* the arguments of scenario S3: StructValue(b: Text "y", a: Int32 1)
S3Fields == <<StructValueField(StrB, TextValue(StrY)), StructValueField(StrA, Int32Value(1))>>

\* C10: two orderings of the same fields give the same stored field order
\* (strictly ascending by name), the same Struct type and the same encoded
\* items; StructValue(b: Text "y", a: Int32 1) has type Struct<a:Int32,b:Text>
\* and items [{int32_value: 1}, {text_value: "y"}]
C10_StructCanonical ==
    /\ spc \in {"built", "encoded"} =>
          /\ svA.fields = svB.fields
          /\ svA.t = svB.t
          /\ Ascending(svA.fields)
          /\ {svA.fields[i] : i \in DOMAIN svA.fields} = {fieldsB[i] : i \in DOMAIN fieldsB}
          /\ Len(svA.fields) = Len(fieldsA)
          /\ svA.t = Struct([i \in DOMAIN svA.fields |->
                        StructField(svA.fields[i].Name, TypeOf(svA.fields[i].V))])
    /\ spc = "encoded" =>
          /\ itemsA = itemsB
          /\ Len(itemsA) = Len(fieldsA)
          /\ \A i \in DOMAIN itemsA : itemsA[i] = toYDB(svA.fields[i].V)
    /\ (spc = "encoded" /\ fieldsA = S3Fields) =>
          /\ svA.t = Struct(<<StructField(StrA, Primitive("Int32")),
                              StructField(StrB, Primitive("Text"))>>)
          /\ itemsA = <<[ZeroNode EXCEPT !.value = [f |-> "int32_value", n |-> 1]],
                        [ZeroNode EXCEPT !.value = [f |-> "text_value", s |-> StrY]]>>

\* S3 is built from (b, a) and from (a, b), and both are encoded
C10_Witness ==
    /\ spc = "encoded"
    /\ fieldsA = S3Fields
    /\ fieldsB = <<S3Fields[2], S3Fields[1]>>
    /\ svA.fields = fieldsB

-----------------------------------------------------------------------------
(* Properties of DictValue                                                 *)

\* the key strings of a pair sequence never descend
AscendingKeys(ps) ==
    \A i \in 1..(Len(ps) - 1) : ~StrLess(toString(ps[i + 1].K), toString(ps[i].K))

\* C11: for pairs with pairwise distinct keys, every ordering of the
\* arguments makes DictValue store the pairs in the same order, ascending by
\* the key's toString(), and so encode the same pairs sequence
C11_DictCanonical ==
    /\ fpc \in {"built", "encoded"} =>
          /\ out.a.ok /\ out.b.ok
          /\ AscendingKeys(out.a.v.values)
          /\ out.a.v.values = out.b.v.values
    /\ fpc = "encoded" => out.pairsA = out.pairsB

-----------------------------------------------------------------------------
(* Properties of castTo                                                    *)

\* castTo has been applied to a source of the given kind
CastOf(kind) == fpc = "done" /\ arg.v.k = kind

\* C12: castTo on a Bool succeeds exactly for bool and string destinations,
\* on an Int8 exactly for string, bytes, i8, i16, i32, i64, f32 and f64; every
\* other destination returns a CastError; Int8Value(5) cast to string gives
\* "5" and cast to bool fails
C12_BoolInt8Destinations ==
    /\ CastOf("Bool") =>
          /\ out.ok <=> arg.dst \in {"bool", "string"}
          /\ ~out.ok => out = CastError
    /\ CastOf("Int8") =>
          /\ out.ok <=> arg.dst \in {"string", "bytes", "i8", "i16", "i32", "i64", "f32", "f64"}
          /\ ~out.ok => out = CastError
    /\ (fpc = "done" /\ arg.v = NumValue("Int8", 5)) =>
          /\ arg.dst = "string" => out = Ok([kind |-> "string", s |-> <<53>>])
          /\ arg.dst = "bool" => out = CastError

\* Int8Value(5) has been cast to a string
C12_Witness ==
    /\ fpc = "done"
    /\ arg = [v |-> NumValue("Int8", 5), dst |-> "string"]
    /\ out.ok

\* bit width of an integer source kind or destination kind
Width(x) ==
    CASE x \in {"Int8", "Uint8", "i8", "u8"} -> 8
      [] x \in {"Int16", "Uint16", "i16", "u16"} -> 16
      [] x \in {"Int32", "Uint32", "i32", "u32"} -> 32
      [] x \in {"Int64", "Uint64", "i64", "u64"} -> 64

SignedKinds == {"Int8", "Int16", "Int32", "Int64"}
UnsignedKinds == {"Uint8", "Uint16", "Uint32", "Uint64"}
SignedDsts == {"i8", "i16", "i32", "i64"}
UnsignedDsts == {"u8", "u16", "u32", "u64"}

\* source and destination are integers of the same signedness
SameSignCast ==
    /\ fpc = "done"
    /\ \/ arg.v.k \in SignedKinds /\ arg.dst \in SignedDsts
       \/ arg.v.k \in UnsignedKinds /\ arg.dst \in UnsignedDsts

\* C13: an integer of width N cast to an integer destination of the same
\* signedness and width M succeeds iff M >= N; a refused cast is a CastError
\* and a successful one stores the same number
C13_WideningOnly ==
    SameSignCast =>
        /\ out.ok <=> Width(arg.dst) >= Width(arg.v.k)
        /\ out.ok => out.v = [kind |-> arg.dst, n |-> arg.v.n]
        /\ ~out.ok => out = CastError

\* Int16Value(-300) has been cast to an int32 destination
C13_Witness ==
    /\ fpc = "done"
    /\ arg = [v |-> NumValue("Int16", -300), dst |-> "i32"]
    /\ out.ok

\* the integer destination of a temporal kind's own width
OwnWidthDst(kind) == IF kind = "Timestamp" THEN "u64" ELSE "u32"

\* C14: Date, Datetime and Timestamp each accept a time destination, which
\* receives the instant in UTC, and an integer destination of their own
\* width: u32 for Date, u32 for Datetime, u64 for Timestamp
C14_TemporalDestinations ==
    (fpc = "done" /\ arg.v.k \in {"Date", "Datetime", "Timestamp"}) =>
        /\ arg.dst = "time" =>
              /\ out.ok
              /\ out.v.t.loc = "UTC"
              /\ arg.v.k = "Date" => out.v.t.sec = arg.v.n * 86400 /\ out.v.t.usec = 0
              /\ arg.v.k = "Datetime" => out.v.t.sec = arg.v.n /\ out.v.t.usec = 0
              /\ arg.v.k = "Timestamp" =>
                    out.v.t.sec * 1000000 + out.v.t.usec = arg.v.n
        /\ arg.dst = OwnWidthDst(arg.v.k) => out = Ok([kind |-> arg.dst, n |-> arg.v.n])

\* a container that is not a tuple of length 1
Refusing(v, kinds) == v.k \in kinds \/ (v.k = "tuple" /\ Len(v.items) # 1)

\* C15: castTo on a List, Struct, Dict or Variant, and on a Tuple whose
\* length is not 1, returns a CastError for every destination; a Tuple of
\* length 1 delegates to its single element
C15_ContainersRefuse ==
    fpc = "done" =>
        /\ Refusing(arg.v, {"list", "struct", "dict", "variant"}) => out = CastError
        /\ (arg.v.k = "tuple" /\ Len(arg.v.items) = 1) =>
              out = castTo(arg.v.items[1], arg.dst)

\* C15 as amended: castTo on a List, Struct or Dict, and on a Tuple whose
\* length is not 1, returns a CastError for every destination; a Tuple of
\* length 1 delegates to its single element and a Variant delegates to the
\* value it holds, so a Variant holding Int32Value(1) casts to an int32 of 1
C15_VariantDelegates ==
    fpc = "done" =>
        /\ Refusing(arg.v, {"list", "struct", "dict"}) => out = CastError
        /\ (arg.v.k = "tuple" /\ Len(arg.v.items) = 1) =>
              out = castTo(arg.v.items[1], arg.dst)
        /\ arg.v.k = "variant" => out = castTo(arg.v.value, arg.dst)
        /\ (arg.v.k = "variant" /\ arg.v.value = Int32Value(1) /\ arg.dst = "i32") =>
              out = Ok([kind |-> "i32", n |-> 1])

\* a Variant holding Int32Value(1) has been cast to an int32 destination
C15_Witness ==
    /\ fpc = "done"
    /\ arg.v.k = "variant"
    /\ arg.v.value = Int32Value(1)
    /\ arg.dst = "i32"
    /\ out.ok

-----------------------------------------------------------------------------
(* Properties of ListValue and ZeroValue                                   *)

\* the type ListValue derives from its first argument
FirstItemType(items) == IF Len(items) > 0 THEN List(TypeOf(items[1])) ELSE EmptyList

\* C16: a list returned by ListValue has type List<T>, T the type of its
\* first item (EmptyList without items), and every item has type T;
\* ListValue rejects items of different types
C16_ListItemsOneType ==
    fpc = "done" =>
        /\ out.ok =>
              /\ TypeOf(out.v) = FirstItemType(arg)
              /\ \A i \in DOMAIN out.v.items : List(TypeOf(out.v.items[i])) = TypeOf(out.v)
        /\ (\E i, j \in DOMAIN arg : TypeOf(arg[i]) # TypeOf(arg[j])) => ~out.ok

RECURSIVE IsZero(_, _)
\* v is the conventional zero of type t
IsZero(v, t) ==
    CASE t.k = "primitive" ->
            (CASE t.id = "Bool" -> v = BoolValue(FALSE)
               [] t.id \in NumKinds -> v = NumValue(t.id, 0)
               [] t.id \in StrKinds -> v = StrValue(t.id, <<>>)
               [] t.id = "UUID" -> v = UUIDValue(<<0, 0>>))
      [] t.k = "optional" -> v = NullValue(t.innerType)
      [] t.k = "void" -> v = VoidValue
      [] t.k = "decimal" -> v = DecimalValue(<<0, 0>>, 22, 9)
      [] t.k = "tuple" ->
            /\ v.k = "tuple"
            /\ Len(v.items) = Len(t.items)
            /\ \A i \in DOMAIN t.items : IsZero(v.items[i], t.items[i])
      [] t.k = "struct" ->
            /\ v.k = "struct"
            /\ Len(v.fields) = Len(t.fields)
            /\ \A i \in DOMAIN t.fields :
                  \E j \in DOMAIN v.fields :
                      /\ v.fields[j].Name = t.fields[i].Name
                      /\ IsZero(v.fields[j].V, t.fields[i].T)
      [] t.k = "variant" ->
            /\ v.k = "variant"
            /\ v.idx = 0
            /\ TypeOf(v) = t
            /\ IsZero(v.value, t.innerType)
      [] t.k \in {"list", "emptyList"} -> v.k = "list" /\ v.items = <<>>
      [] t.k = "dict" -> v.k = "dict" /\ v.values = <<>>
      [] OTHER -> TRUE

\* C17: for every type t, ZeroValue(t) returns without aborting and returns
\* the conventional zero of t: false / 0 / empty string / empty bytes / zero
\* date for primitives, NULL of the inner type for Optional, Void for Void, a
\* zero-filled Decimal(22,9) for Decimal, recursively zeroed items for Tuple
\* and Struct, a Variant at index 0 holding the inner zero
C17_ZeroValueTotal ==
    fpc = "done" => (out.ok /\ IsZero(out.v, arg))

-----------------------------------------------------------------------------
(* Properties of decimalValue.toString                                     *)

RECURSIVE PadLeft(_, _)
\* the digits d with zeros in front, up to n digits
PadLeft(d, n) == IF Len(d) >= n THEN d ELSE PadLeft(<<48>> \o d, n)

\* digits with a decimal point scale digits from the right
PointAt(d, scale) ==
    SubSeq(d, 1, Len(d) - scale) \o <<46>> \o SubSeq(d, Len(d) - scale + 1, Len(d))

\* the renderings of n / 10^scale: sign, digits, a point scale digits from
\* the right, with or without a zero before the point of a pure fraction
Renderings(n, scale) ==
    LET sign == IF n < 0 THEN <<45>> ELSE <<>>
        digits == FormatUint(IF n < 0 THEN -n ELSE n)
    IN {sign \o PointAt(PadLeft(digits, scale), scale),
        sign \o PointAt(PadLeft(digits, scale + 1), scale)}

\* C18: toString() of a Decimal(p, s) is the signed digits of its integer
\* with a decimal point s digits from the right, also when the integer has s
\* or fewer digits; the Decimal(22,9) zero renders as "0.000000000"
C18_DecimalString ==
    fpc = "done" =>
        /\ out.ok
        /\ out.v \in Renderings(arg.n, arg.v.innerType.Scale)
        /\ (arg.n = 0 /\ arg.v.innerType.Scale = 9) =>
              out.v = <<48, 46, 48, 48, 48, 48, 48, 48, 48, 48, 48>>

-----------------------------------------------------------------------------
(* Properties of decoding NULL chains and variants                         *)

RECURSIVE OptionalDepth(_)
\* the number of Optional levels at the top of a type
OptionalDepth(t) == IF t.k = "optional" THEN 1 + OptionalDepth(t.innerType) ELSE 0

\* C19: a chain of k NestedValue wrappers ending in a NullFlag decodes, for an
\* Optional type, to a NULL at optional level k (one Optional level unwrapped
\* per NestedValue), for Void to the Void value, and for every other type
\* (primitive, container, decimal) to a decode failure
C19_NullChainDecode ==
    fpc = "done" =>
        /\ (arg.t.k = "optional" /\ arg.depth < OptionalDepth(arg.t)) =>
              /\ out.ok
              /\ TypeOf(out.v) = arg.t
              /\ NullLevel(out.v) = arg.depth
        /\ arg.t.k = "void" => out = Ok(VoidValue)
        /\ arg.t.k \notin {"optional", "void"} => ~out.ok

\* C20: a variant built from an element value x at index i,
\* VariantValue(x, i, innerType), and encoded decodes to a variant of the same
\* type holding x at index i: the NestedValue is decoded against the element
\* of the inner tuple / struct that variant_index selects
C20_VariantElementRoundTrip ==
    (cpc = "decoded" /\ val.k = "variant" /\ TypeOf(val.value) # val.innerType.innerType) =>
        /\ res.ok
        /\ TypeOf(res.v) = TypeOf(val)
        /\ res.v.value = val.value
        /\ res.v.idx = val.idx

-----------------------------------------------------------------------------
(* Properties of decoding against a declared type                          *)

\* a node of items only, as many as the struct type declares fields
FittingStruct ==
    /\ fpc = "done"
    /\ arg.t.k = "struct"
    /\ arg.v.value = NoField
    /\ arg.v.pairs = <<>>
    /\ Len(arg.v.items) = Len(arg.t.fields)

\* C21: decoding a Struct pairs wire item i with the i-th field the type
\* declares and yields a value whose fields are in the declared order, also
\* when the declared names are not ascending
C21_StructDeclaredOrder ==
    FittingStruct =>
        /\ out.ok
        /\ Len(out.v.fields) = Len(arg.t.fields)
        /\ \A i \in DOMAIN arg.t.fields :
              /\ out.v.fields[i].Name = arg.t.fields[i].Name
              /\ Ok(out.v.fields[i].V)
                    = FromYDB(TypeToYDB(arg.t.fields[i].T), arg.v.items[i])

\* C21 as amended: decoding a Struct pairs wire item i with the i-th field
\* the type declares and yields a value whose fields are stored in ascending
\* name order, the canonical order of StructValue; its Type lists the fields
\* in that order too, which is not the declared order when the declared
\* names are not ascending
C21_StructCanonicalOrder ==
    FittingStruct =>
        /\ out.ok
        /\ Len(out.v.fields) = Len(arg.t.fields)
        /\ Ascending(out.v.fields)
        /\ \A i \in DOMAIN arg.t.fields :
              \E j \in DOMAIN out.v.fields :
                  /\ out.v.fields[j].Name = arg.t.fields[i].Name
                  /\ Ok(out.v.fields[j].V)
                        = FromYDB(TypeToYDB(arg.t.fields[i].T), arg.v.items[i])
        /\ TypeOf(out.v) = StructAB

\* the items (Text "y", Int32 1) have been decoded against Struct<b:Text, a:Int32>
C21_Witness ==
    /\ FittingStruct
    /\ arg.t = StructBA
    /\ arg.v.items = <<LeafText(StrY), LeafInt32(1)>>
    /\ out.ok
    /\ out.v.fields = <<StructValueField(StrA, Int32Value(1)),
                        StructValueField(StrB, TextValue(StrY))>>

\* C22: every decode failure is returned to the caller as an error carrying
\* a stack trace; decoding never aborts the process
C22_DecodeFailuresReturned ==
    (fpc = "done" /\ ~out.ok) => (~out.panic /\ out.stack)

\* C26: FromYDB(t, v) returns a value whose Type is the declared type,
\* FromYDB(t, v).Type() == TypeFromYDB(t), also for lists and dicts with zero
\* items / pairs and for tuples and structs whose wire item count differs
\* from the type's arity
C26_DecodedTypeIsDeclared ==
    fpc = "done" => (out.ok /\ TypeOf(out.v) = TypeFromYDB(TypeToYDB(arg.t)))

-----------------------------------------------------------------------------
(* Properties of Discover                                                  *)

\* the reported endpoints whose ssl flag is the client's, in response order
Reported ==
    LET Mine(e) == e.ssl = arg.d.ssl
    IN SelectSeq(arg.result.endpoints, Mine)

\* C23: every endpoint Discover returns carries the address, port and
\* load_factor the ListEndpoints response reported for it
C23_EndpointCarriesLoadFactor ==
    (fpc = "done" /\ out.err = "nil" /\ Len(out.endpoints) = Len(Reported)) =>
        \A i \in DOMAIN out.endpoints :
            /\ out.endpoints[i].Addr = Reported[i].address
            /\ out.endpoints[i].Port = Reported[i].port
            /\ out.endpoints[i].LoadFactor = Reported[i].load_factor

\* C24: on success Discover returns, in response order, exactly the
\* endpoints whose ssl flag equals the client's ssl setting, each with
\* local = (location == self_location); on an RPC or unmarshal error it
\* returns the error and no endpoints
C24_DiscoverFiltersBySsl ==
    fpc = "done" =>
        /\ arg.outcome = "ok" =>
              /\ out.err = "nil"
              /\ Len(out.endpoints) = Len(Reported)
              /\ \A i \in DOMAIN out.endpoints :
                    /\ out.endpoints[i].Addr = Reported[i].address
                    /\ out.endpoints[i].Port = Reported[i].port
                    /\ out.endpoints[i].Local
                          = (Reported[i].location = arg.result.self_location)
        /\ arg.outcome # "ok" => (out.err = arg.outcome /\ out.endpoints = <<>>)

\* of two reported endpoints only the second has the client's ssl flag, and
\* it is local
C24_Witness ==
    /\ fpc = "done"
    /\ arg.outcome = "ok"
    /\ Len(arg.result.endpoints) = 2
    /\ arg.result.endpoints[1].ssl # arg.d.ssl
    /\ arg.result.endpoints[2].ssl = arg.d.ssl
    /\ Len(out.endpoints) = 1
    /\ out.endpoints[1].Addr = arg.result.endpoints[2].address
    /\ out.endpoints[1].Local

-----------------------------------------------------------------------------
(* Properties of payload ownership                                         *)

\* C25: after castTo a bytes destination on a Bytes, YSON or UUID value, a
\* write through the destination buffer does not change the value's payload:
\* a later toString() gives the same result as before
C25_PayloadOwned ==
    (fpc = "done" /\ arg.dst = "bytes" /\ arg.kind \in {"Bytes", "YSON", "UUID"}) =>
        /\ out.heap.payload = arg.payload
        /\ out.after = out.before

-----------------------------------------------------------------------------
(* Properties of the text of the unsigned values                           *)

\* C27: for every unsigned integer value, Uint64 values of 2^63 and above
\* included, castTo a string or bytes destination yields exactly the decimal
\* text that toString() returns
C27_UnsignedTextAgrees ==
    fpc = "done" => out.cast.s = out.str

-----------------------------------------------------------------------------
(* Properties of the balancer                                              *)

BannedOf(c) == {e \in DOMAIN c : c[e].state = Banned}
AllBanned == DOMAIN conns # {} /\ OnlineOf(conns) = {}
AllOnline == DOMAIN conns # {} /\ BannedOf(conns) = {}

\* C4: Next() returns nil iff the element set is empty, and otherwise the
\* connection of an element currently in the set, also when all are Banned
C4_NextNilIffEmpty ==
    op = "Next" =>
        /\ (got = NoConn) <=> (DOMAIN conns = {})
        /\ DOMAIN conns # {} => got \in DOMAIN conns

\* Next() has answered with every element Banned, after a Remove
C4_Witness ==
    /\ op = "Next"
    /\ AllBanned
    /\ removed # {}
    /\ got \in DOMAIN conns

\* C5: Next() never returns a Banned element while an Online one exists
C5_NoBannedWhileOnline ==
    (op = "Next" /\ OnlineOf(conns) # {}) => got \in OnlineOf(conns)

\* Next() has answered with one element Banned and two Online
C5_Witness ==
    /\ op = "Next"
    /\ Cardinality(BannedOf(conns)) = 1
    /\ Cardinality(OnlineOf(conns)) = 2
    /\ got \in OnlineOf(conns)

\* C6: Pessimize(e) bans e and returns AllBannedError iff the call banned the
\* last Online element
C6_AllBannedErrorIffLast ==
    op = "Pessimize" =>
        /\ conns[parg].state = Banned
        /\ (perr = "AllBannedError") <=> pcaused

\* C6 as amended: Pessimize(e) bans e and returns no error, also when the
\* call banned the last Online element
C6_PessimizeReturnsNil ==
    op = "Pessimize" =>
        /\ conns[parg].state = Banned
        /\ perr = "nil"

\* Pessimize has just banned the last Online of three elements
C6_Witness ==
    /\ op = "Pessimize"
    /\ pcaused
    /\ Cardinality(DOMAIN conns) = 3
    /\ AllBanned

\* C7: after Remove(e) no Next() returns e, and Next() stays non-nil while
\* any element remains
C7_RemovedNeverReturned ==
    op = "Next" =>
        /\ got \notin removed
        /\ DOMAIN conns # {} => got # NoConn

\* Next() has answered with two elements left after a Remove
C7_Witness ==
    /\ op = "Next"
    /\ removed # {}
    /\ got \in DOMAIN conns
    /\ Cardinality(DOMAIN conns) = 2

\* the shares of the elements: equal load factors get equal shares, a lower
\* load factor never gets a smaller share, every candidate gets a slot
SharesFollowLoad ==
    \A i, j \in Candidates(conns) :
        /\ Slots(belt, i) >= 1
        /\ conns[i].loadFactor = conns[j].loadFactor => Slots(belt, i) = Slots(belt, j)
        /\ conns[i].loadFactor < conns[j].loadFactor => Slots(belt, i) >= Slots(belt, j)

\* the elements are exactly three, with load factors a, b and c
LoadsAre(a, b, c) ==
    \E i, j, l \in DOMAIN conns :
        /\ i # j /\ j # l /\ i # l
        /\ DOMAIN conns = {i, j, l}
        /\ conns[i].loadFactor = a /\ conns[j].loadFactor = b /\ conns[l].loadFactor = c

\* the number of a run of n calls that go to the elements of load factor lf,
\* each taken alone
CountOf(lf, n) ==
    LET e == CHOOSE x \in DOMAIN conns : conns[x].loadFactor = lf
    IN (n * Slots(belt, e)) \div Len(belt)

\* C8: when every element is Banned, Next() chooses uniformly among them
\* regardless of their load factors
C8_UniformWhenAllBanned ==
    AllBanned => \A i, j \in DOMAIN conns : Slots(belt, i) = Slots(belt, j)

\* C8 as amended: when every element is Banned, Next() chooses among them
\* by load factor as it does among Online elements; load factors 10, 20, 30
\* get 75, 50, 25 of 150 calls, and equal load factors get equal shares
C8_WeightedWhenAllBanned ==
    AllBanned =>
        /\ SharesFollowLoad
        /\ LoadsAre(10, 20, 30) =>
              /\ CountOf(10, 150) = 75
              /\ CountOf(20, 150) = 50
              /\ CountOf(30, 150) = 25
        /\ LoadsAre(0, 0, 0) => \A e \in DOMAIN conns : (150 * Slots(belt, e)) \div Len(belt) = 50

\* three Banned elements with load factors 10, 20, 30
C8_Witness == AllBanned /\ LoadsAre(10, 20, 30) /\ op = "Next"

\* max(L, epsilon) with epsilon = 0.0001, in units of 0.0001
MaxEps(lf) == IF lf = 0 THEN 1 ELSE lf * 1000

\* within +-10% of the expected count, as the test computes it
Within10(act, exp) == act >= (exp * 9) \div 10 /\ act <= (exp * 11) \div 10

\* C9: with all elements Online the share of element i is
\* (1/max(L_i, eps)) / SUM_j (1/max(L_j, eps)), i.e. share_i * max(L_i, eps)
\* is the same for all i; load factors 0.2, 1.0, 1.0 give counts within 10%
\* of 600, 200, 200 per 1000 calls
C9_InverseLoadShare ==
    AllOnline =>
        /\ \A i, j \in DOMAIN conns :
              Slots(belt, i) * MaxEps(conns[i].loadFactor)
                  = Slots(belt, j) * MaxEps(conns[j].loadFactor)
        /\ LoadsAre(2, 10, 10) =>
              /\ Within10(CountOf(2, 1000), 600)
              /\ Within10(CountOf(10, 1000), 200)

\* C9 as amended: with all elements Online a lower load factor never gets a
\* smaller share and equal load factors get equal shares; load factors
\* 0.2, 1.0, 1.0 give shares 3/5, 1/5, 1/5: 600, 200, 200 per 1000 calls
C9_WeightedShare ==
    AllOnline =>
        /\ SharesFollowLoad
        /\ LoadsAre(2, 10, 10) =>
              /\ CountOf(2, 1000) = 600
              /\ CountOf(10, 1000) = 200

\* three Online elements with load factors 0.2, 1.0, 1.0
C9_Witness == AllOnline /\ LoadsAre(2, 10, 10) /\ op = "Next"

====
